---- MODULE Spec2Model ----
(***************************************************************************)
(* Churn-prediction data preparation: the date rules of utils.py, the      *)
(* scenario preparers of data_preprocessing/ and the prepare_data pipeline *)
(* that drives them.                                                       *)
(*                                                                         *)
(* Dates are records [y, m, d].  A record set (a DataFrame) is a sequence  *)
(* of rows.  The warehouse (processor.get_*_data) is outside the           *)
(* repository: each of its calls returns a record set chosen               *)
(* nondeterministically, of a bounded number of rows.                      *)
(***************************************************************************)
EXTENDS Integers, Sequences, FiniteSets, TLC

VARIABLES
    pc,                 \* position of prepare_data
    raw,                \* processor.last_date, the date string of the extract
    last_date,          \* data_processing.py:55
    date_res,           \* data_processing.py:60
    date_arret,         \* data_processing.py:66
    date_client,        \* data_processing.py:72
    resiliation_data,   \* data_processing.py:61
    arret_conso_data,   \* data_processing.py:67
    clients_data,       \* data_processing.py:73
    train_file,         \* the artifact written at data_processing.py:77
    test_resiliation,   \* prepare_resiliation.py:65
    calls,              \* the calls made to the data-access collaborator, in order
    log,                \* the LOGGER entries of the preparers, in order
    error,              \* the exception that ended prepare_data, or "none"
    unit,               \* prepare_all_resiliations called on its own: its arguments
    probe,              \* the date functions of utils.py applied to one date
    feat,               \* load_data and load_data_for_prediction applied to one dataset
    mlrun,              \* a run of train_model
    enc                 \* encode_xor applied to one string

pipeVars == <<pc, raw, last_date, date_res, date_arret, date_client,
              resiliation_data, arret_conso_data, clients_data, train_file,
              test_resiliation, calls, log, error>>

vars == <<pc, raw, last_date, date_res, date_arret, date_client,
          resiliation_data, arret_conso_data, clients_data, train_file,
          test_resiliation, calls, log, error, unit, probe, feat, mlrun, enc>>

----------------------------------------------------------------------------
(* Bounds *)

\* Rows a single warehouse call returns at most, when prepare_all_resiliations
\* is called on its own.
MaxRows == 2

\* Rows a single warehouse call returns at most, in a run of prepare_data.
MaxPipeRows == 1

\* Years of last known dates fed to prepare_data, counted from start_date's year.
NumLastYears == 1

\* Years of dates the date functions are applied to.
NumProbeYears == 2

----------------------------------------------------------------------------
(* Calendar: calendar.monthrange, date.replace, dateutil.relativedelta *)

Date(y, m, d) == [y |-> y, m |-> m, d |-> d]

NoDate == Date(0, 0, 0)

IsLeap(y) == (y % 4 = 0) /\ ((y % 100 # 0) \/ (y % 400 = 0))

\* calendar.monthrange(year, month)[1]
DaysInMonth(y, m) ==
    IF m = 2 THEN (IF IsLeap(y) THEN 29 ELSE 28)
    ELSE IF m \in {4, 6, 9, 11} THEN 30 ELSE 31

IsDate(t) == /\ t.m \in 1..12
             /\ t.d \in 1..DaysInMonth(t.y, t.m)

Min(a, b) == IF a <= b THEN a ELSE b

\* Order of dates: a key that grows with the date.
DateKey(t) == t.y * 10000 + t.m * 100 + t.d

DateLT(a, b) == DateKey(a) < DateKey(b)

DateLE(a, b) == DateKey(a) <= DateKey(b)

\* t + relativedelta(months=k), k of either sign: the month moves by k and
\* the day is clipped to the length of the month reached.
AddMonths(t, k) ==
    LET total == t.y * 12 + (t.m - 1) + k
        ny    == total \div 12
        nm    == (total % 12) + 1
    IN  Date(ny, nm, Min(t.d, DaysInMonth(ny, nm)))

\* t + relativedelta(days=1)
AddOneDay(t) ==
    IF t.d < DaysInMonth(t.y, t.m) THEN Date(t.y, t.m, t.d + 1)
    ELSE IF t.m < 12 THEN Date(t.y, t.m + 1, 1)
    ELSE Date(t.y + 1, 1, 1)

----------------------------------------------------------------------------
(* utils.py: the date rules *)

get_last_day_of_month_fixed28(target_date) ==
    Date(target_date.y, target_date.m, 28)

get_last_day_of_month(target_date) ==
    Date(target_date.y, target_date.m, DaysInMonth(target_date.y, target_date.m))

get_arret_preparation_date(latest_date) ==
    AddMonths(get_last_day_of_month(latest_date), -7)

get_resiliation_preparation_date(latest_date) ==
    AddMonths(get_last_day_of_month(latest_date), -1)

get_client_preparation_date(latest_date) ==
    AddMonths(get_last_day_of_month(latest_date), -9)

get_prediction_start_date_next_month(latest_date) ==
    AddOneDay(Date(latest_date.y, latest_date.m,
                   DaysInMonth(latest_date.y, latest_date.m)))

get_prediction_start_date(latest_date) ==
    Date(latest_date.y, latest_date.m, 1)

\* A date string "a/b/c" is the triple <<a, b, c>> of its fields as written.
\* strptime with '%d/%m/%Y' accepts it when a is a day of month b of the
\* four-digit year c; with '%Y/%m/%d' when a is a four-digit year and c a
\* day of its month b.
FourDigits(n) == n \in 1000..9999

MatchesDMY(s) == /\ FourDigits(s[3])
                 /\ s[2] \in 1..12
                 /\ s[1] \in 1..DaysInMonth(s[3], s[2])

MatchesYMD(s) == /\ FourDigits(s[1])
                 /\ s[2] \in 1..12
                 /\ s[3] \in 1..DaysInMonth(s[1], s[2])

\* parse_last_date: [ok, value]; ok = FALSE is the ValueError of the second
\* pd.to_datetime.
parse_last_date(date_string) ==
    LET date_obj == IF MatchesDMY(date_string)
                    THEN Date(date_string[3], date_string[2], date_string[1])
                    ELSE Date(date_string[1], date_string[2], date_string[3])
        last_day == DaysInMonth(date_obj.y, date_obj.m)
    IN  IF MatchesDMY(date_string) \/ MatchesYMD(date_string)
        THEN [ok |-> TRUE, value |-> Date(date_obj.y, date_obj.m, last_day)]
        ELSE [ok |-> FALSE, value |-> NoDate]

FormatDMY(t) == <<t.d, t.m, t.y>>

FormatYMD(t) == <<t.y, t.m, t.d>>

----------------------------------------------------------------------------
(* The data-access collaborator and the preparers *)

\* The record sets of at most k rows; row i of a record set is i.
RecordSetsUpTo(k) == { [i \in 1..j |-> i] : j \in 0..k }

NoData == <<>>

\* One call of the collaborator: the bounds it was given, its third argument
\* (a scenario for get_resiliation_data, a date for the two others) and the
\* record set it returned.
Call(fn, start, end, scenario, as_of, ret) ==
    [fn |-> fn, start |-> start, end |-> end, scenario |-> scenario,
     as_of |-> as_of, ret |-> ret]

Entry(level, who) == [level |-> level, who |-> who]

\* The branch on data.empty: a warning or an info, nothing else.
EmptyLog(data, who) ==
    IF Len(data) = 0 THEN Entry("warning", who) ELSE Entry("info", who)

prepare_resiliation_data_fails_on_empty(start_date, end_date, months_offset, scenario, ret) ==
    LET period_start == AddMonths(start_date, months_offset)
        period_end   == AddMonths(end_date, months_offset)
    IN  [call   |-> Call("get_resiliation_data", period_start, period_end,
                         scenario, NoDate, ret),
         data   |-> ret,
         raised |-> Len(ret) = 0,
         log    |-> <<Entry("info", "resiliation"), EmptyLog(ret, "resiliation")>>]

\* ResiliationPreparer.prepare_resiliation_data; ret is what
\* processor.get_resiliation_data returns.
prepare_resiliation_data(start_date, end_date, months_offset, scenario, ret) ==
    LET period_start == AddMonths(start_date, months_offset)
        period_end   == AddMonths(end_date, months_offset)
    IN  [call   |-> Call("get_resiliation_data", period_start, period_end,
                         scenario, NoDate, ret),
         data   |-> ret,
         raised |-> FALSE,
         log    |-> <<Entry("info", "resiliation"), EmptyLog(ret, "resiliation")>>]

\* DataFrame.drop_duplicates: the first occurrence of every row.
RECURSIVE DropDuplicates(_)
DropDuplicates(s) ==
    IF Len(s) = 0 THEN <<>>
    ELSE LET front == SubSeq(s, 1, Len(s) - 1)
             rest  == DropDuplicates(front)
         IN  IF \E i \in 1..Len(front) : front[i] = s[Len(s)]
             THEN rest
             ELSE Append(rest, s[Len(s)])

Concat3_drop_duplicates(a, b, c) == DropDuplicates(a \o b \o c)

\* pd.concat of three frames: the rows of each, in the order given.
Concat3(a, b, c) == a \o b \o c

\* ResiliationPreparer.prepare_all_resiliations; rets are what the three
\* calls of processor.get_resiliation_data return.
prepare_all_resiliations(start_date, end_date, rets) ==
    LET resiliation_6 == prepare_resiliation_data(start_date, end_date, 6, 0, rets[1])
        resiliation_7 == prepare_resiliation_data(start_date, end_date, 6, 1, rets[2])
        resiliation_8 == prepare_resiliation_data(start_date, end_date, 6, 2, rets[3])
    IN  [calls  |-> <<resiliation_6.call, resiliation_7.call, resiliation_8.call>>,
         data   |-> Concat3(resiliation_6.data, resiliation_7.data, resiliation_8.data),
         raised |-> resiliation_6.raised \/ resiliation_7.raised \/ resiliation_8.raised,
         log    |-> resiliation_6.log \o resiliation_7.log \o resiliation_8.log
                    \o <<Entry("info", "combined")>>]

\* ArretConsoPreparer.prepare_arret_conso
prepare_arret_conso(start_date, end_date, last, ret) ==
    [call   |-> Call("get_arret_conso_data", start_date, end_date, -1, last, ret),
     data   |-> ret,
     raised |-> FALSE,
     log    |-> <<Entry("info", "arret_conso"), EmptyLog(ret, "arret_conso")>>]

\* ClientsPreparer.prepare_clients
prepare_clients(start_date, end_date, last, ret) ==
    [call   |-> Call("get_client_data", start_date, end_date, -1, last, ret),
     data   |-> ret,
     raised |-> FALSE,
     log    |-> <<Entry("info", "client"), EmptyLog(ret, "client")>>]

----------------------------------------------------------------------------
(* data_processing.py: prepare_data *)

\* The global start date of the observation windows (src.data_preprocessing).
start_date == Date(2017, 1, 1)

LastYears == start_date.y .. (start_date.y + NumLastYears - 1)

\* processor.last_date: for every month, a day inside it written day first,
\* and its last day written year first.
LastDateStrings ==
    UNION { { FormatDMY(Date(y, m, 15)), FormatYMD(Date(y, m, DaysInMonth(y, m))) }
            : <<y, m>> \in LastYears \X (1..12) }

PipeRecordSets == RecordSetsUpTo(MaxPipeRows)

IdleUnit == [start_date |-> NoDate, end_date |-> NoDate, called |-> FALSE]

IdleProbe == [step |-> "idle", date |-> NoDate, fmt |-> "none", parsed |-> NoDate,
              norm |-> NoDate, again |-> NoDate, res |-> NoDate, arret |-> NoDate,
              client |-> NoDate, pred |-> NoDate]

IdleFeat == [step |-> "idle"]

IdleRun == [pc |-> "idle"]

IdleEnc == [step |-> "idle"]

\* The parts of the state a specification does not use stay idle.
FeatIdle == feat = IdleFeat

RunIdle == mlrun = IdleRun

EncIdle == enc = IdleEnc

Init ==
    /\ pc = "start"
    /\ raw \in LastDateStrings
    /\ last_date = NoDate
    /\ date_res = NoDate
    /\ date_arret = NoDate
    /\ date_client = NoDate
    /\ resiliation_data = NoData
    /\ arret_conso_data = NoData
    /\ clients_data = NoData
    /\ train_file = NoData
    /\ test_resiliation = NoData
    /\ calls = <<>>
    /\ log = <<>>
    /\ error = "none"
    /\ unit = IdleUnit
    /\ probe = IdleProbe
    /\ FeatIdle /\ RunIdle /\ EncIdle

\* data_processing.py:55  last_date = get_last_date(processor.last_date)
ParseLastDate ==
    /\ pc = "start"
    /\ LET r == parse_last_date(raw)
       IN  IF r.ok
           THEN /\ last_date' = r.value
                /\ pc' = "resiliation"
                /\ error' = error
           ELSE /\ last_date' = last_date
                /\ pc' = "failed"
                /\ error' = "ValueError"
    /\ UNCHANGED <<raw, date_res, date_arret, date_client, resiliation_data,
                   arret_conso_data, clients_data, train_file, test_resiliation,
                   calls, log, unit, probe, feat, mlrun, enc>>

\* data_processing.py:57-61
PrepareResiliation ==
    /\ pc = "resiliation"
    /\ \E rets \in PipeRecordSets \X PipeRecordSets \X PipeRecordSets :
         LET date == get_resiliation_preparation_date(last_date)
             out  == prepare_all_resiliations(start_date, date, rets)
         IN  /\ date_res' = date
             /\ calls' = calls \o out.calls
             /\ log' = log \o out.log
             /\ IF out.raised
                THEN /\ pc' = "failed"
                     /\ error' = "Exception"
                     /\ resiliation_data' = resiliation_data
                ELSE /\ pc' = "arret"
                     /\ error' = error
                     /\ resiliation_data' = out.data
    /\ UNCHANGED <<raw, last_date, date_arret, date_client, arret_conso_data,
                   clients_data, train_file, test_resiliation, unit, probe, feat, mlrun, enc>>

\* data_processing.py:63-67
PrepareArretConso ==
    /\ pc = "arret"
    /\ \E ret \in PipeRecordSets :
         LET date == get_arret_preparation_date(last_date)
             out  == prepare_arret_conso(start_date, date, last_date, ret)
         IN  /\ date_arret' = date
             /\ calls' = Append(calls, out.call)
             /\ log' = log \o out.log
             /\ IF out.raised
                THEN /\ pc' = "failed"
                     /\ error' = "Exception"
                     /\ arret_conso_data' = arret_conso_data
                ELSE /\ pc' = "clients"
                     /\ error' = error
                     /\ arret_conso_data' = out.data
    /\ UNCHANGED <<raw, last_date, date_res, date_client, resiliation_data,
                   clients_data, train_file, test_resiliation, unit, probe, feat, mlrun, enc>>

\* data_processing.py:69-73
PrepareClients ==
    /\ pc = "clients"
    /\ \E ret \in PipeRecordSets :
         LET date == get_client_preparation_date(last_date)
             out  == prepare_clients(start_date, date, last_date, ret)
         IN  /\ date_client' = date
             /\ calls' = Append(calls, out.call)
             /\ log' = log \o out.log
             /\ IF out.raised
                THEN /\ pc' = "failed"
                     /\ error' = "Exception"
                     /\ clients_data' = clients_data
                ELSE /\ pc' = "write_train"
                     /\ error' = error
                     /\ clients_data' = out.data
    /\ UNCHANGED <<raw, last_date, date_res, date_arret, resiliation_data,
                   arret_conso_data, train_file, test_resiliation, unit, probe, feat, mlrun, enc>>

\* data_processing.py:75-77  train_df = pd.concat([...]); train_df.to_pickle(...)
WriteTrain ==
    /\ pc = "write_train"
    /\ train_file' = Concat3(resiliation_data, arret_conso_data, clients_data)
    /\ pc' = "test_resiliation"
    /\ UNCHANGED <<raw, last_date, date_res, date_arret, date_client,
                   resiliation_data, arret_conso_data, clients_data,
                   test_resiliation, calls, log, error, unit, probe, feat, mlrun, enc>>

\* data_processing.py:81 entering prepare_test_data; prepare_resiliation.py:64-65
TestResiliation ==
    /\ pc = "test_resiliation"
    /\ \E rets \in PipeRecordSets \X PipeRecordSets \X PipeRecordSets :
         LET out == prepare_all_resiliations(AddOneDay(date_res), last_date, rets)
         IN  /\ calls' = calls \o out.calls
             /\ log' = log \o <<Entry("info", "test_resiliation")>> \o out.log
             /\ IF out.raised
                THEN /\ pc' = "failed"
                     /\ error' = "Exception"
                     /\ test_resiliation' = test_resiliation
                ELSE /\ pc' = "test_arret"
                     /\ error' = error
                     /\ test_resiliation' = out.data
    /\ UNCHANGED <<raw, last_date, date_res, date_arret, date_client,
                   resiliation_data, arret_conso_data, clients_data, train_file,
                   unit, probe, feat, mlrun, enc>>

\* The parameters prepare_arret_conso takes besides self, and the arguments
\* prepare_test_data passes to it.
prepare_arret_conso_params == 3

test_arret_conso_args == 2

\* prepare_resiliation.py:67-68: the call binds two arguments to three
\* parameters, a TypeError that no caller catches: prepare_test_data and
\* prepare_data end here, before any get_arret_conso_data call.
TestArretConso ==
    /\ pc = "test_arret"
    /\ log' = Append(log, Entry("info", "test_arret_conso"))
    /\ IF test_arret_conso_args = prepare_arret_conso_params
       THEN /\ pc' = "test_clients"
            /\ error' = error
       ELSE /\ pc' = "failed"
            /\ error' = "TypeError"
    /\ UNCHANGED <<raw, last_date, date_res, date_arret, date_client,
                   resiliation_data, arret_conso_data, clients_data, train_file,
                   test_resiliation, calls, unit, probe, feat, mlrun, enc>>

Next ==
    \/ ParseLastDate
    \/ PrepareResiliation
    \/ PrepareArretConso
    \/ PrepareClients
    \/ WriteTrain
    \/ TestResiliation
    \/ TestArretConso

Spec == Init /\ [][Next]_vars

----------------------------------------------------------------------------
(* prepare_all_resiliations called on its own, on any pair of dates *)

\* The years of the dates given to prepare_all_resiliations and to the date
\* functions: 2023 and the leap year after it.
ProbeYears == 2023 .. (2023 + NumProbeYears - 1)

\* Bounds given to prepare_all_resiliations: first, 30th and 31st days of
\* months whose shifted images fall in months of 28/29, 30 and 31 days, and
\* the global start date.
UnitDates ==
    { Date(y, m, d) : <<y, m, d>> \in ProbeYears \X {1, 8, 10} \X {1, 30, 31} }
    \cup {start_date}

UnitRecordSets == RecordSetsUpTo(MaxRows)

InitUnit ==
    /\ pc = "unit"
    /\ raw = <<0, 0, 0>>
    /\ last_date = NoDate
    /\ date_res = NoDate
    /\ date_arret = NoDate
    /\ date_client = NoDate
    /\ resiliation_data = NoData
    /\ arret_conso_data = NoData
    /\ clients_data = NoData
    /\ train_file = NoData
    /\ test_resiliation = NoData
    /\ calls = <<>>
    /\ log = <<>>
    /\ error = "none"
    /\ \E s \in UnitDates, e \in UnitDates :
         unit = [start_date |-> s, end_date |-> e, called |-> FALSE]
    /\ probe = IdleProbe
    /\ FeatIdle /\ RunIdle /\ EncIdle

\* resiliation_data = preparer.prepare_all_resiliations(start_date, end_date)
CallPrepareAllResiliations ==
    /\ pc = "unit"
    /\ ~unit.called
    /\ \E rets \in UnitRecordSets \X UnitRecordSets \X UnitRecordSets :
         LET out == prepare_all_resiliations(unit.start_date, unit.end_date, rets)
         IN  /\ calls' = out.calls
             /\ log' = out.log
             /\ resiliation_data' = IF out.raised THEN resiliation_data ELSE out.data
             /\ error' = IF out.raised THEN "Exception" ELSE error
    /\ unit' = [unit EXCEPT !.called = TRUE]
    /\ UNCHANGED <<pc, raw, last_date, date_res, date_arret, date_client,
                   arret_conso_data, clients_data, train_file, test_resiliation,
                   probe, feat, mlrun, enc>>

NextUnit == CallPrepareAllResiliations

SpecUnit == InitUnit /\ [][NextUnit]_vars

----------------------------------------------------------------------------
(* The date rules of utils.py applied to every date of ProbeYears *)

ProbeDates ==
    { t \in { Date(y, m, d) : <<y, m, d>> \in ProbeYears \X (1..12) \X (1..31) } :
        IsDate(t) }

FormatAs(fmt, t) == IF fmt = "dmy" THEN FormatDMY(t) ELSE FormatYMD(t)

InitDates ==
    /\ pc = "probe"
    /\ raw = <<0, 0, 0>>
    /\ last_date = NoDate
    /\ date_res = NoDate
    /\ date_arret = NoDate
    /\ date_client = NoDate
    /\ resiliation_data = NoData
    /\ arret_conso_data = NoData
    /\ clients_data = NoData
    /\ train_file = NoData
    /\ test_resiliation = NoData
    /\ calls = <<>>
    /\ log = <<>>
    /\ error = "none"
    /\ unit = IdleUnit
    /\ FeatIdle /\ RunIdle /\ EncIdle
    /\ \E t \in ProbeDates, f \in {"dmy", "ymd"} :
         probe = [IdleProbe EXCEPT !.step = "new", !.date = t, !.fmt = f]

\* parse_last_date(date_string) on the date written in either format
ProbeParse ==
    /\ probe.step = "new"
    /\ probe' = [probe EXCEPT
                    !.step = "parsed",
                    !.parsed = parse_last_date(FormatAs(probe.fmt, probe.date)).value]
    /\ UNCHANGED pipeVars
    /\ UNCHANGED <<unit, feat, mlrun, enc>>

\* get_last_day_of_month(target_date)
ProbeLastDay ==
    /\ probe.step = "parsed"
    /\ probe' = [probe EXCEPT !.step = "normalized",
                               !.norm = get_last_day_of_month(probe.date)]
    /\ UNCHANGED pipeVars
    /\ UNCHANGED <<unit, feat, mlrun, enc>>

\* get_last_day_of_month applied to its own result
ProbeLastDayAgain ==
    /\ probe.step = "normalized"
    /\ probe' = [probe EXCEPT !.step = "renormalized",
                               !.again = get_last_day_of_month(probe.norm)]
    /\ UNCHANGED pipeVars
    /\ UNCHANGED <<unit, feat, mlrun, enc>>

\* The three preparation dates and the prediction start of the date
ProbeDerive ==
    /\ probe.step = "renormalized"
    /\ probe' = [probe EXCEPT
                    !.step = "derived",
                    !.res = get_resiliation_preparation_date(probe.date),
                    !.arret = get_arret_preparation_date(probe.date),
                    !.client = get_client_preparation_date(probe.date),
                    !.pred = get_prediction_start_date(probe.norm)]
    /\ UNCHANGED pipeVars
    /\ UNCHANGED <<unit, feat, mlrun, enc>>

NextDates ==
    \/ ProbeParse
    \/ ProbeLastDay
    \/ ProbeLastDayAgain
    \/ ProbeDerive

SpecDates == InitDates /\ [][NextDates]_vars

----------------------------------------------------------------------------
(* Properties *)

\* In a run of prepare_data the first five collaborator calls build the
\* training set (three resiliation scenarios, consumption-stop, client);
\* the calls after them are made by prepare_test_data.
IsTrainCall(i) == i \in DOMAIN calls /\ i <= 5

IsTestCall(i) == i \in DOMAIN calls /\ i > 5

IsLastDayOfMonth(t) == IsDate(t) /\ AddOneDay(t).d = 1

\* C1: the training window and the test window of one category never
\* overlap: the end bound of a training call is strictly earlier than the
\* start bound of the test call of the same category and scenario.
C1_TrainEndsBeforeTestStarts ==
    \A i \in DOMAIN calls, j \in DOMAIN calls :
        ( /\ IsTrainCall(i)
          /\ IsTestCall(j)
          /\ calls[i].fn = calls[j].fn
          /\ calls[i].scenario = calls[j].scenario )
        => DateLT(calls[i].end, calls[j].start)

\* C2: for global_start <= as_of, the windows passed for scenarios 0, 1, 2
\* have both bounds shifted by 6 + i months, so consecutive windows start
\* (and end) exactly one month apart, in strictly increasing order.
C2_ScenarioWindowsOneMonthApart ==
    ( unit.called /\ DateLE(unit.start_date, unit.end_date) )
    => /\ \A k \in DOMAIN calls :
            /\ calls[k].start = AddMonths(unit.start_date, 6 + calls[k].scenario)
            /\ calls[k].end = AddMonths(unit.end_date, 6 + calls[k].scenario)
       /\ \A k \in DOMAIN calls :
            (k + 1) \in DOMAIN calls =>
                /\ DateLT(calls[k].start, calls[k + 1].start)
                /\ calls[k + 1].start.y * 12 + calls[k + 1].start.m
                     = calls[k].start.y * 12 + calls[k].start.m + 1
                /\ calls[k + 1].end.y * 12 + calls[k + 1].end.m
                     = calls[k].end.y * 12 + calls[k].end.m + 1

\* C3: the data-access collaborator is never called with an inverted range
\* (start > end); the stage aborts with InvalidWindow instead.
C3_NoInvertedWindowQueried ==
    \A i \in DOMAIN calls : DateLE(calls[i].start, calls[i].end)

\* prepare_test_data is over: its resiliation calls are made and the step
\* after them has run.
TestStageEnded == Len(calls) > 5 /\ pc # "test_arret"

\* C4: when prepare_test_data is over, each of the three categories was
\* retrieved over (own as_of + 1 day, last_date] and nothing was raised.
C4_TestSetFromThreeCategories ==
    TestStageEnded
    => /\ error = "none"
       /\ \E i \in DOMAIN calls :
            /\ IsTestCall(i)
            /\ calls[i].fn = "get_arret_conso_data"
            /\ calls[i].start = AddOneDay(date_arret)
            /\ calls[i].end = last_date
       /\ \E i \in DOMAIN calls :
            /\ IsTestCall(i)
            /\ calls[i].fn = "get_client_data"
            /\ calls[i].start = AddOneDay(date_client)
            /\ calls[i].end = last_date

\* C5: the preparation dates are the normalized date minus 1, 7 and 9
\* months, and each of them is the last calendar day of its month.
C5_PreparationDatesAreMonthEnds ==
    probe.step = "derived"
    => /\ probe.res = AddMonths(probe.norm, -1)
       /\ probe.arret = AddMonths(probe.norm, -7)
       /\ probe.client = AddMonths(probe.norm, -9)
       /\ IsLastDayOfMonth(probe.res)
       /\ IsLastDayOfMonth(probe.arret)
       /\ IsLastDayOfMonth(probe.client)

\* C6: month-end normalization is idempotent and yields the last calendar
\* day of the date's own month, leap years included; parse_last_date
\* normalizes the same way, from either date format.
C6_LastDayOfMonthIdempotent ==
    probe.step \in {"renormalized", "derived"}
    => /\ probe.again = probe.norm
       /\ probe.norm.y = probe.date.y
       /\ probe.norm.m = probe.date.m
       /\ IsLastDayOfMonth(probe.norm)
       /\ probe.parsed = probe.norm

C6_Witness ==
    /\ probe.step = "renormalized"
    /\ probe.date = Date(2024, 2, 10)
    /\ probe.norm = Date(2024, 2, 29)
    /\ probe.again = Date(2024, 2, 29)

AsOfBound(c) ==
    IF c.fn = "get_resiliation_data" THEN date_res
    ELSE IF c.fn = "get_arret_conso_data" THEN date_arret
    ELSE date_client

\* C8: every training window has start <= end and ends no later than its
\* category's as-of date, hence no later than the last known date; every
\* test window starts no earlier than that as-of date.
C8_WindowsWithinAsOfBounds ==
    \A i \in DOMAIN calls :
        /\ IsTrainCall(i) =>
              /\ DateLE(calls[i].start, calls[i].end)
              /\ DateLE(calls[i].end, AsOfBound(calls[i]))
              /\ DateLE(calls[i].end, last_date)
        /\ IsTestCall(i) => DateLE(AsOfBound(calls[i]), calls[i].start)

Warnings == { i \in DOMAIN log : log[i].level = "warning" }

EmptyReturns == { i \in DOMAIN calls : Len(calls[i].ret) = 0 }

\* C9: an empty record set is never an error.  Each preparer hands back
\* exactly what the collaborator returned, empty or not, and raises nothing;
\* one warning is logged per empty return and nothing else differs; in the
\* training set an empty dataset leaves the rows of the others unchanged.
C9_EmptyResultIsNotAnError ==
    /\ error \in {"none", "TypeError"}
    /\ Cardinality(Warnings) = Cardinality(EmptyReturns)
    /\ Len(calls) >= 3 =>
          resiliation_data = calls[1].ret \o calls[2].ret \o calls[3].ret
    /\ Len(calls) >= 4 => arret_conso_data = calls[4].ret
    /\ Len(calls) >= 5 => clients_data = calls[5].ret
    /\ Len(calls) >= 8 =>
          test_resiliation = calls[6].ret \o calls[7].ret \o calls[8].ret
    /\ pc \in {"test_resiliation", "test_arret", "failed"} =>
          /\ Len(train_file) = Len(calls[1].ret) + Len(calls[2].ret) + Len(calls[3].ret)
                                + Len(calls[4].ret) + Len(calls[5].ret)
          /\ Len(arret_conso_data) = 0 => train_file = resiliation_data \o clients_data
          /\ Len(clients_data) = 0 => train_file = resiliation_data \o arret_conso_data
          /\ Len(resiliation_data) = 0 => train_file = arret_conso_data \o clients_data

C9_Witness ==
    /\ pc = "test_resiliation"
    /\ calls[1].ret = <<1>>
    /\ calls[2].ret = <<>>
    /\ calls[4].ret = <<>>
    /\ calls[5].ret = <<1>>
    /\ arret_conso_data = <<>>
    /\ train_file = <<1, 1>>
    /\ error = "none"

\* C10: prepare_all_resiliations makes exactly three get_resiliation_data
\* calls, for scenarios 0, 1, 2 in that order, and returns their rows
\* scenario by scenario in source order, none dropped: the row count is the
\* sum of the three row counts.
C10_ThreeCallsConcatenatedInOrder ==
    unit.called
    => /\ Len(calls) = 3
       /\ \A k \in 1..3 : /\ calls[k].fn = "get_resiliation_data"
                           /\ calls[k].scenario = k - 1
       /\ Len(resiliation_data)
            = Len(calls[1].ret) + Len(calls[2].ret) + Len(calls[3].ret)
       /\ \A k \in 1..Len(calls[1].ret) : resiliation_data[k] = calls[1].ret[k]
       /\ \A k \in 1..Len(calls[2].ret) :
            resiliation_data[Len(calls[1].ret) + k] = calls[2].ret[k]
       /\ \A k \in 1..Len(calls[3].ret) :
            resiliation_data[Len(calls[1].ret) + Len(calls[2].ret) + k]
              = calls[3].ret[k]

C10_Witness ==
    /\ unit.called
    /\ calls[1].ret = <<1, 2>>
    /\ calls[2].ret = <<>>
    /\ calls[3].ret = <<1>>
    /\ resiliation_data = <<1, 2, 1>>

----------------------------------------------------------------------------
(* utils.py: encode_xor *)

\* Longest string given to encode_xor.
MaxStrLen == 2

\* The pipeline, the unit call and the date probe are not running.
PipeIdle ==
    /\ pc = "idle"
    /\ raw = <<0, 0, 0>>
    /\ last_date = NoDate
    /\ date_res = NoDate
    /\ date_arret = NoDate
    /\ date_client = NoDate
    /\ resiliation_data = NoData
    /\ arret_conso_data = NoData
    /\ clients_data = NoData
    /\ train_file = NoData
    /\ test_resiliation = NoData
    /\ calls = <<>>
    /\ log = <<>>
    /\ error = "none"
    /\ unit = IdleUnit
    /\ probe = IdleProbe

\* a ^ b on non-negative integers, bit by bit
RECURSIVE BitXor(_, _)
BitXor(a, b) ==
    IF a = 0 /\ b = 0 THEN 0
    ELSE (((a % 2) + (b % 2)) % 2) + 2 * BitXor(a \div 2, b \div 2)

\* key = 67
XorKey == 67

\* chr() accepts the code points 0 .. 0x10FFFF.
MaxCodePoint == 1114111

\* A string is the sequence of its code points (ord of each character).
\* Code points given: NUL, 'A', 'C' (the key itself), the first non-ASCII
\* one, U+00E9 and the last one.
CodePoints == {0, 65, 67, 128, 233, MaxCodePoint}

RECURSIVE StringsUpTo(_)
StringsUpTo(n) ==
    IF n = 0 THEN {<<>>}
    ELSE LET shorter == StringsUpTo(n - 1)
         IN  shorter \cup { Append(t, c) : t \in shorter, c \in CodePoints }

encode_xor_shift(string_to_encode) ==
    [i \in 1..Len(string_to_encode) |->
        (string_to_encode[i] + XorKey) % (MaxCodePoint + 1)]

\* ''.join(chr(ord(char) ^ key) for char in string_to_encode)
encode_xor(string_to_encode) ==
    [i \in 1..Len(string_to_encode) |-> BitXor(string_to_encode[i], XorKey)]

InitEnc ==
    /\ PipeIdle
    /\ FeatIdle /\ RunIdle
    /\ \E str \in StringsUpTo(MaxStrLen) :
         enc = [step |-> "new", s |-> str, once |-> <<>>, twice |-> <<>>]

\* encoded = encode_xor(s)
EncEncode ==
    /\ enc.step = "new"
    /\ enc' = [enc EXCEPT !.step = "encoded", !.once = encode_xor(enc.s)]
    /\ UNCHANGED pipeVars
    /\ UNCHANGED <<unit, probe, feat, mlrun>>

\* decoded = encode_xor(encoded)
EncDecode ==
    /\ enc.step = "encoded"
    /\ enc' = [enc EXCEPT !.step = "decoded", !.twice = encode_xor(enc.once)]
    /\ UNCHANGED pipeVars
    /\ UNCHANGED <<unit, probe, feat, mlrun>>

NextEnc ==
    \/ EncEncode
    \/ EncDecode

SpecEnc == InitEnc /\ [][NextEnc]_vars

\* C15: encode_xor is its own inverse, and the encoded string has as many
\* characters as the string, each of them a code point chr() accepts.
C15_EncodeXorIsAnInvolution ==
    /\ enc.step \in {"encoded", "decoded"} =>
          /\ Len(enc.once) = Len(enc.s)
          /\ \A i \in 1..Len(enc.once) : enc.once[i] \in 0..MaxCodePoint
    /\ enc.step = "decoded" => enc.twice = enc.s

C15_Witness ==
    /\ enc.step = "decoded"
    /\ enc.s = <<65, 233>>
    /\ enc.once = <<2, 170>>
    /\ enc.twice = <<65, 233>>

----------------------------------------------------------------------------
(* modeling/train.py, modeling/predict.py: feature and label assembly *)

\* Rows of the dataset given to load_data and load_data_for_prediction.
MaxRecords == 2

\* A column value is a float: a ratio n/d with d > 0, NaN or an infinity.
Num(k) == [kind |-> "num", n |-> k, d |-> 1]

NaN == [kind |-> "nan", n |-> 0, d |-> 1]

PosInf == [kind |-> "inf", n |-> 0, d |-> 1]

NegInf == [kind |-> "ninf", n |-> 0, d |-> 1]

\* column >= k and column <= k for an integer k: False on NaN
GE(a, k) == \/ a.kind = "inf"
            \/ a.kind = "num" /\ a.n >= k * a.d

LE(a, k) == \/ a.kind = "ninf"
            \/ a.kind = "num" /\ a.n <= k * a.d

GT(a, k) == \/ a.kind = "inf"
            \/ a.kind = "num" /\ a.n > k * a.d

\* Series.fillna(0)
FillNa0(a) == IF a.kind = "nan" THEN Num(0) ELSE a

\* a - b
Sub(a, b) ==
    IF a.kind = "nan" \/ b.kind = "nan" THEN NaN
    ELSE IF a.kind = "num" /\ b.kind = "num"
         THEN [kind |-> "num", n |-> a.n * b.d - b.n * a.d, d |-> a.d * b.d]
    ELSE IF a.kind = "num" THEN (IF b.kind = "inf" THEN NegInf ELSE PosInf)
    ELSE IF b.kind = "num" THEN a
    ELSE IF a.kind = b.kind THEN NaN ELSE a

\* a / b on float columns: x/0 is an infinity of x's sign, 0/0 is NaN
Div(a, b) ==
    IF a.kind = "nan" \/ b.kind = "nan" THEN NaN
    ELSE IF a.kind = "num" /\ b.kind = "num"
         THEN IF b.n = 0
              THEN (IF a.n > 0 THEN PosInf ELSE IF a.n < 0 THEN NegInf ELSE NaN)
              ELSE IF b.n > 0
                   THEN [kind |-> "num", n |-> a.n * b.d, d |-> a.d * b.n]
                   ELSE [kind |-> "num", n |-> (0 - a.n) * b.d, d |-> a.d * (0 - b.n)]
    ELSE IF a.kind = "num" THEN Num(0)
    ELSE IF b.kind # "num" THEN NaN
    ELSE IF (a.kind = "inf") = (b.n >= 0) THEN PosInf ELSE NegInf

Abs(k) == IF k < 0 THEN 0 - k ELSE k

\* DataFrame.round(2): the nearest hundredth, a tie going to the even one;
\* NaN and the infinities stay.
Round2(a) ==
    IF a.kind # "num" THEN a
    ELSE LET q  == (100 * Abs(a.n)) \div a.d
             r  == (100 * Abs(a.n)) % a.d
             up == (2 * r > a.d) \/ (2 * r = a.d /\ q % 2 = 1)
             h  == IF up THEN q + 1 ELSE q
         IN  [kind |-> "num", n |-> (IF a.n < 0 THEN 0 - h ELSE h), d |-> 100]

\* The columns of a row that the two functions read.
Columns == {"tenure", "inactive_months", "revenue_12_months", "revenue_6_months",
            "revenue_growth", "frequency", "churn"}

Row(tenure, inactive, rev12, rev6, growth, frequency, churn) ==
    [c \in Columns |->
        CASE c = "tenure" -> tenure
          [] c = "inactive_months" -> inactive
          [] c = "revenue_12_months" -> rev12
          [] c = "revenue_6_months" -> rev6
          [] c = "revenue_growth" -> growth
          [] c = "frequency" -> frequency
          [] c = "churn" -> churn]

\* min_age, min_inactivity_months, min_revenue and numerical_features are
\* imported from src.modeling: the functions are run under each of these
\* settings.
Configs ==
    { [min_age |-> 6, min_inactivity_months |-> 9, min_revenue |-> 300,
       numerical_features |-> {"tenure", "inactive_months", "revenue_12_months",
                               "revenue_6_months", "revenue_growth", "frequency"}],
      [min_age |-> 0, min_inactivity_months |-> 0, min_revenue |-> 0,
       numerical_features |-> {"revenue_growth", "tenure"}] }

\* Rows at and around the three thresholds, tenure missing included, with
\* one revenue history ...
ThresholdRows(cfg) ==
    { Row(t, Num(i), Num(r), Num(100), Num(50), Num(2), Num(0)) :
        <<t, i, r>> \in {NaN, Num(cfg.min_age - 1), Num(cfg.min_age)}
                       \X {cfg.min_inactivity_months, cfg.min_inactivity_months + 1}
                       \X {cfg.min_revenue - 1, cfg.min_revenue} }

\* ... and rows that pass the three thresholds with other revenue
\* histories (a zero denominator, 0/0, a ratio that needs rounding) and a
\* missing frequency.
HistoryRows(cfg) ==
    { Row(Num(cfg.min_age), Num(cfg.min_inactivity_months), Num(cfg.min_revenue),
          h[1], h[2], h[3], h[4]) :
        h \in { <<Num(100), Num(100), Num(1), Num(1)>>,
                <<Num(0), Num(0), Num(3), Num(1)>>,
                <<Num(100), Num(0 - 200), Num(2), Num(1)>>,
                <<Num(300), Num(100), NaN, Num(0)>> } }

Rows(cfg) == ThresholdRows(cfg) \cup HistoryRows(cfg)

RECURSIVE FramesUpTo(_, _)
FramesUpTo(n, rows) ==
    IF n = 0 THEN {<<>>}
    ELSE LET shorter == FramesUpTo(n - 1, rows)
         IN  shorter \cup { Append(f, r) : f \in shorter, r \in rows }

\* data_df.astype({..., "frequency": "int"}): a missing frequency cannot be
\* cast, the call raises.
CastRaises(data_df) == \E i \in DOMAIN data_df : data_df[i]["frequency"].kind # "num"

\* data_df[column] = value, row by row
WithColumn(row, column, value) == [row EXCEPT ![column] = value]

\* data_df['tenure'].fillna(0, inplace=True)
FillTenure(data_df) ==
    [i \in DOMAIN data_df |->
        WithColumn(data_df[i], "tenure", FillNa0(data_df[i]["tenure"]))]

\* (revenue_6_months / (revenue_6_months - revenue_growth)) - 1
RevenueGrowth(row) ==
    Sub(Div(row["revenue_6_months"],
            Sub(row["revenue_6_months"], row["revenue_growth"])),
        Num(1))

DeriveGrowth(data_df) ==
    [i \in DOMAIN data_df |->
        WithColumn(data_df[i], "revenue_growth", RevenueGrowth(data_df[i]))]

\* data_df[numerical_features], reset_index(drop=True), round(2)
SelectFeatures(data_df, numerical_features) ==
    [i \in DOMAIN data_df |-> [c \in numerical_features |-> Round2(data_df[i][c])]]

\* data_df.pop(label_column)
PopLabel(data_df, label_column) == [i \in DOMAIN data_df |-> data_df[i][label_column]]

NoFrame == [raised |-> FALSE, x |-> <<>>, y |-> <<>>]

load_data_revenue_strict(data, label_column, cfg) ==
    IF CastRaises(data) THEN [raised |-> TRUE, x |-> <<>>, y |-> <<>>]
    ELSE LET filled  == FillTenure(data)
             by_age  == SelectSeq(filled, LAMBDA r : GE(r["tenure"], cfg.min_age))
             by_act  == SelectSeq(by_age,
                           LAMBDA r : LE(r["inactive_months"], cfg.min_inactivity_months))
             by_rev  == SelectSeq(by_act,
                           LAMBDA r : GT(r["revenue_12_months"], cfg.min_revenue))
             derived == DeriveGrowth(by_rev)
         IN  [raised |-> FALSE,
              x |-> SelectFeatures(derived, cfg.numerical_features),
              y |-> PopLabel(derived, label_column)]

\* train.py: load_data, from the frame read at file_path on
load_data(data, label_column, cfg) ==
    IF CastRaises(data) THEN [raised |-> TRUE, x |-> <<>>, y |-> <<>>]
    ELSE LET filled  == FillTenure(data)
             by_age  == SelectSeq(filled, LAMBDA r : GE(r["tenure"], cfg.min_age))
             by_act  == SelectSeq(by_age,
                           LAMBDA r : LE(r["inactive_months"], cfg.min_inactivity_months))
             by_rev  == SelectSeq(by_act,
                           LAMBDA r : GE(r["revenue_12_months"], cfg.min_revenue))
             derived == DeriveGrowth(by_rev)
         IN  [raised |-> FALSE,
              x |-> SelectFeatures(derived, cfg.numerical_features),
              y |-> PopLabel(derived, label_column)]

load_data_for_prediction_no_fillna(data, cfg) ==
    IF CastRaises(data) THEN [raised |-> TRUE, x |-> <<>>, y |-> <<>>]
    ELSE LET by_age  == SelectSeq(data, LAMBDA r : GE(r["tenure"], cfg.min_age))
             by_act  == SelectSeq(by_age,
                           LAMBDA r : LE(r["inactive_months"], cfg.min_inactivity_months))
             by_rev  == SelectSeq(by_act,
                           LAMBDA r : GE(r["revenue_12_months"], cfg.min_revenue))
             derived == DeriveGrowth(by_rev)
         IN  [raised |-> FALSE,
              x |-> SelectFeatures(derived, cfg.numerical_features),
              y |-> <<>>]

\* predict.py: load_data_for_prediction, from the frame read at file_path on
load_data_for_prediction(data, cfg) ==
    IF CastRaises(data) THEN [raised |-> TRUE, x |-> <<>>, y |-> <<>>]
    ELSE LET filled  == FillTenure(data)
             by_age  == SelectSeq(filled, LAMBDA r : GE(r["tenure"], cfg.min_age))
             by_act  == SelectSeq(by_age,
                           LAMBDA r : LE(r["inactive_months"], cfg.min_inactivity_months))
             by_rev  == SelectSeq(by_act,
                           LAMBDA r : GE(r["revenue_12_months"], cfg.min_revenue))
             derived == DeriveGrowth(by_rev)
         IN  [raised |-> FALSE,
              x |-> SelectFeatures(derived, cfg.numerical_features),
              y |-> <<>>]

InitFeat ==
    /\ PipeIdle
    /\ RunIdle /\ EncIdle
    /\ \E cfg \in Configs :
         \E data \in FramesUpTo(MaxRecords, Rows(cfg)) :
            feat = [step |-> "new", cfg |-> cfg, data |-> data,
                    train |-> NoFrame, pred |-> NoFrame]

\* x, y = load_data(file_path, "churn")
FeatLoadData ==
    /\ feat.step = "new"
    /\ feat' = [feat EXCEPT !.step = "trained",
                            !.train = load_data(feat.data, "churn", feat.cfg)]
    /\ UNCHANGED pipeVars
    /\ UNCHANGED <<unit, probe, mlrun, enc>>

\* x = load_data_for_prediction(file_path), on the same frame
FeatLoadForPrediction ==
    /\ feat.step = "trained"
    /\ feat' = [feat EXCEPT !.step = "predicted",
                            !.pred = load_data_for_prediction(feat.data, feat.cfg)]
    /\ UNCHANGED pipeVars
    /\ UNCHANGED <<unit, probe, mlrun, enc>>

NextFeat ==
    \/ FeatLoadData
    \/ FeatLoadForPrediction

SpecFeat == InitFeat /\ [][NextFeat]_vars

\* The three predicates of the claim on one raw row, a missing tenure
\* counting as 0.
PassesFilters(row, cfg) ==
    /\ GE(FillNa0(row["tenure"]), cfg.min_age)
    /\ LE(row["inactive_months"], cfg.min_inactivity_months)
    /\ GE(row["revenue_12_months"], cfg.min_revenue)

Survivors(data, cfg) == SelectSeq(data, LAMBDA r : PassesFilters(r, cfg))

\* The feature rows of the surviving rows, in their order in the dataset.
SurvivorFeatures(data, cfg) ==
    SelectFeatures(DeriveGrowth(FillTenure(Survivors(data, cfg))),
                   cfg.numerical_features)

\* C11: in load_data and in load_data_for_prediction a record is in the
\* output if and only if tenure (missing as 0) >= min_age, inactive_months
\* <= min_inactivity_months and revenue_12_months >= min_revenue; the
\* survivors keep their relative order.
C11_OutputIsExactlyTheRowsPassingTheFilters ==
    /\ (feat.step \in {"trained", "predicted"} /\ ~feat.train.raised) =>
          /\ Len(feat.train.x)
               = Cardinality({ i \in DOMAIN feat.data :
                                 PassesFilters(feat.data[i], feat.cfg) })
          /\ feat.train.x = SurvivorFeatures(feat.data, feat.cfg)
    /\ (feat.step = "predicted" /\ ~feat.pred.raised) =>
          /\ Len(feat.pred.x)
               = Cardinality({ i \in DOMAIN feat.data :
                                 PassesFilters(feat.data[i], feat.cfg) })
          /\ feat.pred.x = SurvivorFeatures(feat.data, feat.cfg)

C11_Witness ==
    /\ feat.step = "predicted"
    /\ feat.cfg.min_age = 6
    /\ Len(feat.data) = 2
    /\ feat.data[1]["tenure"] = NaN
    /\ feat.data[2]["tenure"] = Num(6)
    /\ PassesFilters(feat.data[2], feat.cfg)
    /\ ~feat.train.raised
    /\ Len(feat.train.x) = 1
    /\ Len(feat.pred.x) = 1

\* C12: on the same dataset the training path and the inference path
\* select the same rows in the same order with the same feature values
\* (and raise on the same datasets); the training path also returns the
\* label of every selected row.
C12_TrainingAndInferenceAgree ==
    feat.step = "predicted"
    => /\ feat.pred.raised = feat.train.raised
       /\ feat.pred.x = feat.train.x
       /\ feat.pred.y = <<>>
       /\ ~feat.train.raised =>
             feat.train.y = PopLabel(Survivors(feat.data, feat.cfg), "churn")

C12_Witness ==
    /\ feat.step = "predicted"
    /\ feat.cfg.min_age = 0
    /\ Len(feat.data) = 2
    /\ feat.data[1]["tenure"] = NaN
    /\ ~feat.train.raised
    /\ Len(feat.train.x) = 2
    /\ feat.train.x[1]["tenure"] = [kind |-> "num", n |-> 0, d |-> 100]
    /\ feat.train.x[2]["revenue_growth"] = [kind |-> "num", n |-> 0 - 67, d |-> 100]
    /\ feat.train.y = <<Num(0), Num(1)>>
    /\ feat.pred.x = feat.train.x

----------------------------------------------------------------------------
(* modeling/train.py: train_model *)

\* Highest version number the model registry returns.
MaxVersion == 3

\* latest_version before any assignment: the local name is unbound.
Unbound == 0

\* The datasets at train_file_path and test_file_path: empty or one row.
RunFrames(cfg) == FramesUpTo(1, HistoryRows(cfg))

\* What client.search_model_versions can return after a registration: the
\* versions of the model, at least one.
VersionLists == { v \in SUBSET (1..MaxVersion) : v # {} }

SetMax(v) == CHOOSE m \in v : \A k \in v : k <= m

InitRun ==
    /\ PipeIdle
    /\ FeatIdle /\ EncIdle
    /\ \E cfg \in Configs :
         \E train \in RunFrames(cfg), test \in RunFrames(cfg) :
            mlrun = [pc |-> "start", cfg |-> cfg, train_data |-> train,
                     test_data |-> test, run_active |-> FALSE,
                     x_train |-> <<>>, y_train |-> <<>>,
                     x_test |-> <<>>, y_test |-> <<>>,
                     registered |-> FALSE, latest_version |-> Unbound,
                     info |-> <<>>, error |-> "none"]

RunUnchanged ==
    /\ UNCHANGED pipeVars
    /\ UNCHANGED <<unit, probe, feat, enc>>

\* train.py:69-72  settings.MLFLOW.start_run(); autolog; LOGGER.info(args)
StartRun ==
    /\ mlrun.pc = "start"
    /\ mlrun' = [mlrun EXCEPT !.pc = "load_train", !.run_active = TRUE,
                              !.info = Append(@, "args")]
    /\ RunUnchanged

\* train.py:75  x_train, y_train = load_data(args.train_file_path, "churn")
LoadTrain ==
    /\ mlrun.pc = "load_train"
    /\ LET out == load_data(mlrun.train_data, "churn", mlrun.cfg)
       IN  mlrun' = IF out.raised
                    THEN [mlrun EXCEPT !.pc = "crashed", !.error = "ValueError"]
                    ELSE [mlrun EXCEPT !.pc = "load_test",
                                       !.x_train = out.x, !.y_train = out.y]
    /\ RunUnchanged

\* train.py:82-84  x_test, y_test = load_data(args.test_file_path, "churn")
LoadTest ==
    /\ mlrun.pc = "load_test"
    /\ LET out == load_data(mlrun.test_data, "churn", mlrun.cfg)
       IN  mlrun' = IF out.raised
                    THEN [mlrun EXCEPT !.pc = "crashed", !.error = "ValueError"]
                    ELSE [mlrun EXCEPT !.pc = "fit",
                                       !.x_test = out.x, !.y_test = out.y,
                                       !.info = Append(@, "shape")]
    /\ RunUnchanged

\* train.py:86-98  fit, predict, classification report and confusion matrix
FitAndEvaluate ==
    /\ mlrun.pc = "fit"
    /\ mlrun' = [mlrun EXCEPT !.pc = "register",
                              !.info = @ \o <<"report", "confusion">>]
    /\ RunUnchanged

\* train.py:101-107  settings.MLFLOW.xgboost.log_model(...)
RegisterModel ==
    /\ mlrun.pc = "register"
    /\ mlrun' = [mlrun EXCEPT !.pc = "search", !.registered = TRUE,
                              !.info = Append(@, "registering")]
    /\ RunUnchanged

\* train.py:109-112  the lookup returns: latest_version = max(int(m.version) ...)
SearchReturns ==
    /\ mlrun.pc = "search"
    /\ \E v \in VersionLists :
         mlrun' = [mlrun EXCEPT !.pc = "log_latest", !.latest_version = SetMax(v)]
    /\ RunUnchanged

\* train.py:113-114  the lookup raises: except Exception as e: LOGGER.info(e);
\* latest_version is not assigned.
SearchRaises ==
    /\ mlrun.pc = "search"
    /\ mlrun' = [mlrun EXCEPT !.pc = "log_latest", !.info = Append(@, "exception")]
    /\ RunUnchanged

\* train.py:115  LOGGER.info(f"Latest model version: {latest_version}"):
\* reading the unbound local raises UnboundLocalError, which nothing catches.
LogLatestVersion ==
    /\ mlrun.pc = "log_latest"
    /\ mlrun' = IF mlrun.latest_version = Unbound
                 THEN [mlrun EXCEPT !.pc = "crashed", !.error = "UnboundLocalError"]
                 ELSE [mlrun EXCEPT !.pc = "end_run", !.info = Append(@, "latest")]
    /\ RunUnchanged

\* train.py:118  settings.MLFLOW.end_run()
EndRun ==
    /\ mlrun.pc = "end_run"
    /\ mlrun' = [mlrun EXCEPT !.pc = "ended", !.run_active = FALSE]
    /\ RunUnchanged

NextRun ==
    \/ StartRun
    \/ LoadTrain
    \/ LoadTest
    \/ FitAndEvaluate
    \/ RegisterModel
    \/ SearchReturns
    \/ SearchRaises
    \/ LogLatestVersion
    \/ EndRun

SpecRun == InitRun /\ [][NextRun]_vars

\* train_model is over: it returned or an exception left it.
RunOver == mlrun.pc \in {"ended", "crashed"}

\* C14: on every path that gets past model registration, the lookup
\* raising included, train_model completes normally and the MLflow run it
\* started has been ended.
C14_RunEndedAfterRegistration ==
    (RunOver /\ mlrun.registered)
    => /\ mlrun.pc = "ended"
       /\ mlrun.error = "none"
       /\ ~mlrun.run_active

----------------------------------------------------------------------------
(* data_processing.py: the order of the stages of prepare_data *)

\* The collaborator calls of the train stage and of the test stage, in the
\* order resiliation (three scenarios), consumption-stop, client.
StageCallOrder ==
    <<"get_resiliation_data", "get_resiliation_data", "get_resiliation_data",
      "get_arret_conso_data", "get_client_data">>

ExpectedCallOrder == StageCallOrder \o StageCallOrder

\* train_df.to_pickle has run.
TrainArtifactWritten == Len(calls) >= 5 /\ pc # "write_train"

\* C13: prepare_data runs its stages one after the other in the order
\* resiliation, consumption-stop, client, write train artifact, test
\* assembly, write test artifact, prediction assembly, write prediction
\* artifact: the collaborator calls come in that order, the train artifact
\* holds the three completed train assemblies, every stage is given the
\* same last known date, and a run that wrote the train artifact goes on
\* through the later stages instead of stopping in the test assembly.
C13_StagesRunInOrder ==
    /\ Len(calls) <= Len(ExpectedCallOrder)
    /\ \A i \in DOMAIN calls : calls[i].fn = ExpectedCallOrder[i]
    /\ TrainArtifactWritten
         => train_file = Concat3(resiliation_data, arret_conso_data, clients_data)
    /\ \A i \in DOMAIN calls : calls[i].as_of \in {NoDate, last_date}
    /\ TrainArtifactWritten => pc # "failed"

====
